---- MODULE Spec2Model ----
(***************************************************************************)
(* CampusLink backend: the verification workflow, the tenant scoping of    *)
(* events and the owner-or-admin checks of events and marketplace items,   *)
(* as implemented by the FastAPI handlers under backend/app/api/v1.        *)
(*                                                                         *)
(* A handler is one action: its guards are the handler's early returns,    *)
(* in the handler's order, and the response it sends is recorded in the    *)
(* variable `last`.  Filenames are sequences of the segments between the   *)
(* dots ("document.pdf" is <<"document", "pdf">>).                         *)
(***************************************************************************)
EXTENDS Integers, Sequences, FiniteSets, TLC

VARIABLES
    users,        \* table users: id -> row
    nextUserId,   \* the users id sequence
    requests,     \* table verification_requests: id -> row
    nextRequestId,\* the verification_requests id sequence
    participations,\* table participations: rows of user_id and event_id
    events,       \* table events: id -> row
    nextEventId,  \* the events id sequence
    items,        \* table marketplace_items: id -> row
    nextItemId,   \* the marketplace_items id sequence
    notifications,\* table notifications, in insertion order
    outbox,       \* payloads handed to the websocket manager, in order
    objects,      \* objects held by the remote bucket and the local static/ tree
    configured,   \* SupabaseStorage.client is not None
    inflight,     \* submissions in progress: session -> position and locals
    last          \* the last response sent

vars == <<users, nextUserId, requests, nextRequestId, participations, events,
          nextEventId, items, nextItemId, notifications, outbox, objects,
          configured, inflight, last>>

-----------------------------------------------------------------------------
(* Bounds *)

MaxRequests == 2
MaxEvents == 1
MaxItems == 2
MaxOwned == 1
NumSessions == 2
MaxUsers == 5

-----------------------------------------------------------------------------
(* Values *)

\* Python None in a nullable integer column / in a nullable string column.
NoId == 0
None == "None"

Sessions == 1..NumSessions

\* str.lower() on the extensions the model uses.
Lower(s) ==
    CASE s = "PNG" -> "png"
      [] s = "PDF" -> "pdf"
      [] s = "GIF" -> "gif"
      [] OTHER -> s

\* file.filename.split(".")[-1].lower()
SplitExt(f) == Lower(f[Len(f)])

\* Path(file_path).suffix.lower(), without its leading dot ("" when there is
\* no suffix: no dot, a trailing dot, or a leading dot only).
Suffix(f) ==
    IF Len(f) >= 2 /\ f[Len(f)] # "" /\ ~(Len(f) = 2 /\ f[1] = "")
    THEN Lower(f[Len(f)])
    ELSE ""

VerificationExts == {"jpg", "jpeg", "png", "pdf"}
ImageExts == {"jpg", "jpeg", "png", "webp"}

\* A stored object, which is also the URL written on the owning row:
\*   remote verification: users/{a}/verification/id_card_{uuid}{ext}
\*   local  verification: static/verifications/id_{a}_{name}
\*   remote event image:  events/{a}/event_image{ext}
\*   local  event image:  /static/events/event_{a}.{ext}
\*   remote item image:   marketplace/{a}/items/{b}/item_image{ext}
\*   local  item image:   static/marketplace/{a}_{name}
\*   remote profile image: users/{a}/profile_picture/profile_picture{ext}
\*   local  profile image: /static/profile_images/user_{a}.{ext}
Object(store, kind, a, b, uuid, name, ext) ==
    [store |-> store, kind |-> kind, a |-> a, b |-> b, uuid |-> uuid,
     name |-> name, ext |-> ext]

NoUrl == Object("none", "none", NoId, NoId, 0, <<>>, "")

\* The response of a handler: its status code and detail, with the handler's
\* name and the number of storage calls (remote or local) it made.
Response(op, code, detail, calls) ==
    [op |-> op, code |-> code, detail |-> detail, calls |-> calls]

-----------------------------------------------------------------------------
(* Dependencies of the handlers (app.api.deps) *)

\* deps.get_current_active_user: the token's user exists and is active.
get_current_active_user(u) ==
    u \in DOMAIN users /\ users[u].is_active

\* deps.get_current_active_college_admin: college_admin or above.
get_current_active_college_admin(u) ==
    /\ get_current_active_user(u)
    /\ (users[u].is_superuser \/ users[u].role \in {"college_admin", "super_admin"})

-----------------------------------------------------------------------------
(* Seeded database: two active colleges and a deactivated one, a student  *)
(* of college 1, a college admin of college 2 and a super admin without a  *)
(* college.                                                                *)

\* Table colleges: id -> row.
colleges ==
    (1 :> [name |-> "College One", invite_code |-> "ABC123", is_active |-> TRUE]) @@
    (2 :> [name |-> "College Two", invite_code |-> "XYZ789", is_active |-> TRUE]) @@
    (3 :> [name |-> "College Three", invite_code |-> "OLD000", is_active |-> FALSE])

User(email, role, is_superuser, college_id, college_name) ==
    [email |-> email, role |-> role, is_superuser |-> is_superuser,
     college_id |-> college_id, college_name |-> college_name,
     profile_image_url |-> NoUrl, is_active |-> TRUE]

SeedUsers ==
    (1 :> User("sam@one.edu", "student", FALSE, 1, "College One")) @@
    (2 :> User("ada@two.edu", "college_admin", FALSE, 2, "College Two")) @@
    (3 :> User("root@campus.link", "super_admin", TRUE, NoId, None))

Idle == [pc |-> "idle", actor |-> NoId, file |-> <<>>, url |-> NoUrl]

Seeded(ids) ==
    /\ users = [u \in ids |-> SeedUsers[u]]
    /\ nextUserId = Cardinality(ids) + 1
    /\ requests = <<>>
    /\ nextRequestId = 1
    /\ participations = {}
    /\ events = <<>>
    /\ nextEventId = 1
    /\ items = <<>>
    /\ nextItemId = 1
    /\ notifications = <<>>
    /\ outbox = <<>>
    /\ objects = {}
    /\ configured \in BOOLEAN
    /\ inflight = [s \in Sessions |-> Idle]
    /\ last = Response("init", 0, "", 0)

\* The three seeded users.
Init == Seeded({1, 2, 3})

\* The student and the college admin only: the workflow's reviewers are
\* told apart by their college, which the two of them cover.
InitVerif == Seeded({1, 2})

-----------------------------------------------------------------------------
(* Verification workflow (endpoints/verifications.py) *)

VerificationRequest(id, user_id, id_card_url) ==
    [id |-> id, user_id |-> user_id, id_card_url |-> id_card_url,
     status |-> "pending", admin_note |-> None]

\* select(VRModel).where(user_id == u, status == "pending")
PendingOf(u) ==
    {id \in DOMAIN requests :
        requests[id].user_id = u /\ requests[id].status = "pending"}

\* uuid.uuid4().hex: a name no stored object carries.
FreshUuid ==
    CHOOSE k \in 1..(Cardinality(objects) + 1) :
        /\ \A o \in objects : o.uuid # k
        /\ \A j \in 1..(k - 1) : \E o \in objects : o.uuid = j

\* storage.upload_verification_document: the public URL, or NoUrl (None)
\* when the client is not configured or the upload raises.
upload_verification_document(user_id, file_path, up) ==
    IF ~configured THEN NoUrl
    ELSE IF ~up THEN NoUrl
    ELSE Object("remote", "verification", user_id, NoId, FreshUuid, <<>>,
                Suffix(file_path))

\* static/verifications/id_{user_id}_{filename}
LocalVerificationPath(user_id, filename) ==
    Object("local", "verification", user_id, NoId, 0, filename, "")

\* A fallback that swallows the failure of the local write.
StoreDocument_Swallowing(u, f, up, wr) ==
    LET remote == upload_verification_document(u, f, up)
        remoteCalls == IF configured THEN 1 ELSE 0
    IN  IF remote # NoUrl
        THEN [ok |-> TRUE, url |-> remote, calls |-> remoteCalls]
        ELSE [ok |-> TRUE,
              url |-> IF wr THEN LocalVerificationPath(u, f) ELSE NoUrl,
              calls |-> remoteCalls + 1]

\* Lines 55-69: the remote upload, then the local fallback.  ok is FALSE
\* when the local write raises.
StoreDocument(u, f, up, wr) ==
    LET remote == upload_verification_document(u, f, up)
        remoteCalls == IF configured THEN 1 ELSE 0
    IN  IF remote # NoUrl
        THEN [ok |-> TRUE, url |-> remote, calls |-> remoteCalls]
        ELSE IF wr
        THEN [ok |-> TRUE, url |-> LocalVerificationPath(u, f),
              calls |-> remoteCalls + 1]
        ELSE [ok |-> FALSE, url |-> NoUrl, calls |-> remoteCalls + 1]

\* A lookup that never finds a pending request.
PendingCheck_Skipped(u) == ""

\* Lines 41-45: the response of the pending-request lookup, "" to go on.
PendingCheck(u) ==
    IF Cardinality(PendingOf(u)) > 1 THEN "MultipleResultsFound"
    ELSE IF PendingOf(u) # {}
    THEN "A pending verification request already exists."
    ELSE ""

\* Lines 48-50.
ExtensionCheck(f) ==
    IF SplitExt(f) \notin VerificationExts
    THEN "Invalid file type. Only JPG/PNG/PDF allowed."
    ELSE ""

\* Lines 71-76: db.add(VRModel(...)); commit.
InsertRequest(u, url) ==
    LET id == nextRequestId
    IN  /\ requests' = requests @@ (id :> VerificationRequest(id, u, url))
        /\ nextRequestId' = id + 1

\* Lines 41-50: the detail of the first check that fails, "" when none does.
SubmitRejection_ExtensionFirst(u, f) ==
    IF ExtensionCheck(f) # "" THEN ExtensionCheck(f) ELSE PendingCheck(u)

SubmitRejection(u, f) ==
    IF PendingCheck(u) # "" THEN PendingCheck(u) ELSE ExtensionCheck(f)

\* <<the remote upload succeeds, the local write succeeds>>: what the
\* storage does when the handler calls it.
StorageOutcomes == {<<TRUE, TRUE>>, <<FALSE, TRUE>>, <<FALSE, FALSE>>}

Frame_verifications ==
    UNCHANGED <<users, events, nextEventId, items, nextItemId, notifications,
                outbox, configured, inflight,
                participations, nextUserId>>

create_verification_request(u, f) ==
    /\ get_current_active_user(u)
    /\ LET why == SubmitRejection(u, f)
       IN  IF why # ""
           THEN /\ last' = Response("submit",
                        IF why = "MultipleResultsFound" THEN 500 ELSE 400,
                        why, 0)
                /\ UNCHANGED <<requests, nextRequestId, objects>>
           ELSE \E io \in StorageOutcomes :
                   LET s == StoreDocument(u, f, io[1], io[2])
                   IN  IF ~s.ok
                       THEN /\ last' = Response("submit", 500,
                                           "Internal Server Error", s.calls)
                            /\ UNCHANGED <<requests, nextRequestId, objects>>
                       ELSE /\ nextRequestId <= MaxRequests
                            /\ InsertRequest(u, s.url)
                            /\ objects' = objects \cup {s.url}
                            /\ last' = Response("submit", 200,
                                 "Verification request submitted successfully",
                                 s.calls)
    /\ Frame_verifications

\* A reviewer that refuses a request that is no longer pending.
approve_request_PendingOnly(u, id) ==
    /\ get_current_active_college_admin(u)
    /\ IF id \notin DOMAIN requests
       THEN /\ last' = Response("approve", 404,
                                "Verification request not found", 0)
            /\ UNCHANGED requests
       ELSE IF requests[id].status # "pending"
       THEN /\ last' = Response("approve", 400, "Request already decided", 0)
            /\ UNCHANGED requests
       ELSE /\ requests' = [requests EXCEPT ![id].status = "approved"]
            /\ last' = Response("approve", 200, "Approved", 0)
    /\ UNCHANGED <<nextRequestId, objects>>
    /\ Frame_verifications

\* Lines 117-124.
approve_request(u, id) ==
    /\ get_current_active_college_admin(u)
    /\ IF id \notin DOMAIN requests
       THEN /\ last' = Response("approve", 404,
                                "Verification request not found", 0)
            /\ UNCHANGED requests
       ELSE /\ requests' = [requests EXCEPT ![id].status = "approved"]
            /\ last' = Response("approve", 200, "Approved", 0)
    /\ UNCHANGED <<nextRequestId, objects>>
    /\ Frame_verifications

\* Lines 135-143.
reject_request(u, id, note) ==
    /\ get_current_active_college_admin(u)
    /\ IF id \notin DOMAIN requests
       THEN /\ last' = Response("reject", 404,
                                "Verification request not found", 0)
            /\ UNCHANGED requests
       ELSE /\ requests' = [requests EXCEPT ![id].status = "rejected",
                                            ![id].admin_note = note]
            /\ last' = Response("reject", 200, "Rejected", 0)
    /\ UNCHANGED <<nextRequestId, objects>>
    /\ Frame_verifications

\* Inputs of the workflow.
Documents == {<<"document", "pdf">>, <<"photo", "gif">>}
Notes == {None, "blurry"}
RequestIds == 1..(MaxRequests + 1)

Submit == \E u \in DOMAIN users, f \in Documents :
             create_verification_request(u, f)
Approve == \E u \in DOMAIN users, id \in RequestIds : approve_request(u, id)
Reject == \E u \in DOMAIN users, id \in RequestIds, note \in Notes :
             reject_request(u, id, note)

NextVerif == Submit \/ Approve \/ Reject

SpecVerif == InitVerif /\ [][NextVerif]_vars


-----------------------------------------------------------------------------
(* Concurrent submissions: each handler is three steps, the lookup (41-45), *)
(* the validation and storage of the document (48-69) and the insert with   *)
(* its commit (71-76).  The await points between them let another handler   *)
(* run.                                                                     *)

Lookup(s, u, f) ==
    /\ inflight[s].pc = "idle"
    /\ get_current_active_user(u)
    /\ UNCHANGED <<users, requests, events, nextEventId, items, nextItemId,
                   notifications, outbox, objects, configured,
                participations, nextUserId, nextRequestId>>
    /\ IF PendingCheck(u) # ""
       THEN /\ last' = Response("submit", IF PendingCheck(u) = "MultipleResultsFound"
                        THEN 500 ELSE 400, PendingCheck(u), 0)
            /\ UNCHANGED inflight
       ELSE /\ inflight' = [inflight EXCEPT ![s] =
                    [pc |-> "checked", actor |-> u, file |-> f, url |-> NoUrl]]
            /\ UNCHANGED last

Store(s, up, wr) ==
    /\ inflight[s].pc = "checked"
    /\ UNCHANGED <<users, requests, events, nextEventId, items, nextItemId,
                   notifications, outbox, configured,
                participations, nextUserId, nextRequestId>>
    /\ LET u == inflight[s].actor
           f == inflight[s].file
           d == StoreDocument(u, f, up, wr)
       IN  IF ExtensionCheck(f) # ""
           THEN /\ last' = Response("submit", 400,
                                    ExtensionCheck(f), 0)
                /\ inflight' = [inflight EXCEPT ![s] = Idle]
                /\ UNCHANGED objects
           ELSE IF ~d.ok
           THEN /\ last' = Response("submit", 500,
                                    "Internal Server Error", d.calls)
                /\ inflight' = [inflight EXCEPT ![s] = Idle]
                /\ UNCHANGED objects
           ELSE /\ objects' = objects \cup {d.url}
                /\ inflight' = [inflight EXCEPT ![s].pc = "stored",
                                                ![s].url = d.url]
                /\ UNCHANGED last

Commit(s) ==
    /\ inflight[s].pc = "stored"
    /\ nextRequestId <= MaxRequests
    /\ UNCHANGED <<users, events, nextEventId, items, nextItemId,
                   notifications, outbox, objects, configured,
                participations, nextUserId>>
    /\ InsertRequest(inflight[s].actor, inflight[s].url)
    /\ inflight' = [inflight EXCEPT ![s] = Idle]
    /\ last' = Response("submit", 200, "Verification request submitted successfully", 0)

LookupStep == \E s \in Sessions, u \in DOMAIN users, f \in Documents : Lookup(s, u, f)
StoreStep == \E s \in Sessions, io \in StorageOutcomes : Store(s, io[1], io[2])
CommitStep == \E s \in Sessions : Commit(s)

NextRace == LookupStep \/ StoreStep \/ CommitStep

SpecRace == InitVerif /\ [][NextRace]_vars

-----------------------------------------------------------------------------
(* Joining a college (endpoints/users.py) *)

InviteCodes == {"ABC123", "XYZ789", "WRONG"}

\* select(College).where(College.invite_code == invite_code)
CollegeByInvite(invite_code) ==
    {c \in DOMAIN colleges : colleges[c].invite_code = invite_code}

Frame_users ==
    UNCHANGED <<requests, events, nextEventId, items, nextItemId,
                notifications, outbox, objects, configured, inflight,
                participations, nextRequestId>>

\* join_college that clears the college of the caller on an unknown code.
join_college_Clearing(u, invite_code) ==
    /\ get_current_active_user(u)
    /\ LET found == CollegeByInvite(invite_code)
       IN  IF found = {}
           THEN /\ last' = Response("join_college", 400, "Invalid invite code", 0)
                /\ users' = [users EXCEPT ![u].college_id = NoId,
                                          ![u].college_name = None]
           ELSE LET c == CHOOSE c \in found : TRUE
                IN  /\ users' = [users EXCEPT ![u].college_id = c,
                                              ![u].college_name = colleges[c].name]
                    /\ last' = Response("join_college", 200, "Successfully joined", 0)
    /\ UNCHANGED nextUserId
    /\ Frame_users

join_college(u, invite_code) ==
    /\ get_current_active_user(u)
    /\ LET found == CollegeByInvite(invite_code)
       IN  IF found = {}
           THEN /\ last' = Response("join_college", 400, "Invalid invite code", 0)
                /\ UNCHANGED users
           ELSE LET c == CHOOSE c \in found : TRUE
                IN  /\ users' = [users EXCEPT ![u].college_id = c,
                                              ![u].college_name = colleges[c].name]
                    /\ last' = Response("join_college", 200, "Successfully joined", 0)
    /\ UNCHANGED nextUserId
    /\ Frame_users

JoinCollege == \E u \in DOMAIN users, code \in InviteCodes : join_college(u, code)

\* The invite code of the deactivated college as well.
AllInviteCodes == InviteCodes \cup {"OLD000"}

JoinAnyCollege ==
    \E u \in DOMAIN users, code \in AllInviteCodes : join_college(u, code)

-----------------------------------------------------------------------------
(* Profile update and registration (endpoints/users.py) *)

\* user_in.dict(exclude_unset=True) applied field by field with setattr: a
\* patch is a record of the fields the body sets.  UserUpdate accepts every
\* field of UserBase.  users.email is unique: the commit of an email another
\* row holds raises IntegrityError and stores nothing.
EmailTaken(email, except) ==
    \E v \in DOMAIN users \ {except} : users[v].email = email

\* A table without the unique index on users.email.
UniqueViolated_Off(email, except) == FALSE

\* The unique index on users.email (models.py:24), checked at the commit of
\* an insert or an update: violated when another row holds the email.
UniqueViolated(email, except) == EmailTaken(email, except)

Patched(row, patch) ==
    [f \in DOMAIN row |-> IF f \in DOMAIN patch THEN patch[f] ELSE row[f]]

update_user_me(u, patch) ==
    /\ get_current_active_user(u)
    /\ IF "email" \in DOMAIN patch /\ UniqueViolated(patch.email, u)
       THEN /\ last' = Response("update_user_me", 500, "IntegrityError", 0)
            /\ UNCHANGED users
       ELSE /\ users' = [users EXCEPT ![u] = Patched(@, patch)]
            /\ last' = Response("update_user_me", 200, "", 0)
    /\ UNCHANGED nextUserId
    /\ Frame_users

Emails == {"sam@one.edu", "kim@one.edu"}
EmailPatches == {[email |-> e] : e \in Emails}
CollegePatches == {[college_id |-> c] : c \in {1, 2}}

UpdateCollegeOfMe ==
    \E u \in DOMAIN users, patch \in CollegePatches : update_user_me(u, patch)
UpdateEmailOfMe ==
    \E u \in DOMAIN users, patch \in EmailPatches : update_user_me(u, patch)

\* create_user takes no current user.  The row gets email, is_superuser, the
\* college the invite code resolves to and the role derived from
\* is_superuser; college_name is not set.
NewUser(email, is_superuser, college_id) ==
    User(email, IF is_superuser THEN "super_admin" ELSE "student",
         is_superuser, college_id, None)

UserExists == "The user with this username already exists in the system."

create_user(email, is_superuser, invite_code) ==
    /\ nextUserId <= MaxUsers
    /\ IF EmailTaken(email, NoId)
       THEN /\ last' = Response("create_user", 400, UserExists, 0)
            /\ UNCHANGED <<users, nextUserId>>
       ELSE IF invite_code # None /\ CollegeByInvite(invite_code) = {}
       THEN /\ last' = Response("create_user", 400, "Invalid invite code", 0)
            /\ UNCHANGED <<users, nextUserId>>
       ELSE LET college_id == IF invite_code = None THEN NoId
                              ELSE CHOOSE c \in CollegeByInvite(invite_code) : TRUE
            IN  /\ users' = users @@
                     (nextUserId :> NewUser(email, is_superuser, college_id))
                /\ last' = Response("create_user", 200, "", 0)
                /\ nextUserId' = nextUserId + 1
    /\ Frame_users

CreateUser ==
    \E email \in Emails, su \in BOOLEAN, code \in {None} \cup AllInviteCodes :
        create_user(email, su, code)

\* create_user in the steps its awaits separate: the lookups of the email
\* and of the invite code (lines 25-40) and the commit of the row (42-53).
Registering(email, is_superuser, college_id) ==
    [pc |-> "registering", actor |-> NoId, email |-> email,
     is_superuser |-> is_superuser, college_id |-> college_id]

RegisterLookup(s, email, is_superuser, invite_code) ==
    /\ inflight[s].pc = "idle"
    /\ IF EmailTaken(email, NoId)
       THEN /\ last' = Response("create_user", 400, UserExists, 0)
            /\ UNCHANGED inflight
       ELSE IF invite_code # None /\ CollegeByInvite(invite_code) = {}
       THEN /\ last' = Response("create_user", 400, "Invalid invite code", 0)
            /\ UNCHANGED inflight
       ELSE /\ inflight' = [inflight EXCEPT ![s] =
                  Registering(email, is_superuser,
                      IF invite_code = None THEN NoId
                      ELSE CHOOSE c \in CollegeByInvite(invite_code) : TRUE)]
            /\ UNCHANGED last
    /\ UNCHANGED <<users, requests, events, nextEventId, items, nextItemId,
                   notifications, outbox, objects, configured,
                participations, nextUserId, nextRequestId>>

RegisterCommit(s) ==
    /\ inflight[s].pc = "registering"
    /\ LET r == inflight[s]
       IN  IF UniqueViolated(r.email, NoId)
           THEN /\ last' = Response("create_user", 500, "IntegrityError", 0)
                /\ UNCHANGED <<users, nextUserId>>
           ELSE /\ nextUserId <= MaxUsers
                /\ users' = users @@
                     (nextUserId :> NewUser(r.email, r.is_superuser, r.college_id))
                /\ last' = Response("create_user", 200, "", 0)
                /\ nextUserId' = nextUserId + 1
    /\ inflight' = [inflight EXCEPT ![s] = Idle]
    /\ UNCHANGED <<requests, events, nextEventId, items, nextItemId,
                   notifications, outbox, objects, configured,
                participations, nextRequestId>>

RegisterLookupStep ==
    \E s \in Sessions, email \in Emails, code \in {None, "ABC123"} :
        RegisterLookup(s, email, FALSE, code)
RegisterCommitStep == \E s \in Sessions : RegisterCommit(s)

\* Registrations in steps and in one piece, with profile updates that set
\* the email.
NextRegister ==
    RegisterLookupStep \/ RegisterCommitStep \/ CreateUser \/ UpdateEmailOfMe

SpecRegister == Init /\ [][NextRegister]_vars

\* Bodies that set the flag or the role.
PrivilegePatches == {[is_superuser |-> TRUE], [role |-> "super_admin"]}

UpdatePrivilegeOfMe ==
    \E u \in DOMAIN users, patch \in PrivilegePatches : update_user_me(u, patch)

\* Registration, joining a college and profile updates that set the flag or
\* the role.
NextPrivilege == CreateUser \/ JoinCollege \/ UpdatePrivilegeOfMe

SpecPrivilege == Init /\ [][NextPrivilege]_vars

\* Joining a college and the profile update.
NextProfile == JoinCollege \/ UpdateCollegeOfMe \/ UpdateEmailOfMe

SpecProfile == Init /\ [][NextProfile]_vars

\* Registration and joining with every invite code of the table.
NextInvite == CreateUser \/ JoinAnyCollege

SpecInvite == Init /\ [][NextInvite]_vars

-----------------------------------------------------------------------------
(* Events (endpoints/events.py) *)

Event(id, title, organizer_id, college_id) ==
    [id |-> id, title |-> title, organizer_id |-> organizer_id,
     college_id |-> college_id, image_url |-> NoUrl]

\* The notification of a new event; its message names the event's title and
\* the organizer.
Notification(id, title, organizer) ==
    [id |-> id, title |-> "New Event!", message |-> <<title, organizer>>,
     type |-> "info"]

\* The default of the query parameter limit.
DefaultLimit == 100

RECURSIVE InIdOrder(_, _)
\* The rows of table t with an id in ids, by ascending id.
InIdOrder(t, ids) ==
    IF ids = {} THEN <<>>
    ELSE LET m == CHOOSE i \in ids : \A j \in ids : i <= j
         IN  <<t[m]>> \o InIdOrder(t, ids \ {m})

\* query.offset(skip).limit(limit) over rows.
Page(rows, skip, limit) ==
    SubSeq(rows, skip + 1, IF skip + limit < Len(rows) THEN skip + limit ELSE Len(rows))

\* A listing without the college filter.
read_events_Unfiltered(u, skip, limit) ==
    Page(InIdOrder(events, DOMAIN events), skip, limit)

\* The response body of GET /events/.
read_events(u, skip, limit) ==
    LET visible == IF ~users[u].is_superuser
                   THEN {e \in DOMAIN events :
                            events[e].college_id = users[u].college_id}
                   ELSE DOMAIN events
    IN  Page(InIdOrder(events, visible), skip, limit)

\* GET /verifications/ (verifications.py:79-108): status defaults to
\* "pending".
DefaultStatus == "pending"
Statuses == {"pending", "approved", "rejected"}

\* A listing without the college filter.
read_verification_requests_Unscoped(u, status) ==
    InIdOrder(requests, {id \in DOMAIN requests : requests[id].status = status})

\* The response body: the requests joined with their users, of the status
\* asked for and, for a caller that is not a superuser, of users in the
\* caller's college.
read_verification_requests(u, status) ==
    LET joined == {id \in DOMAIN requests :
                      /\ requests[id].user_id \in DOMAIN users
                      /\ requests[id].status = status}
        visible == IF ~users[u].is_superuser
                   THEN {id \in joined :
                            users[requests[id].user_id].college_id
                                = users[u].college_id}
                   ELSE joined
    IN  InIdOrder(requests, visible)

\* Submissions of document.pdf and decisions without a note by the three
\* seeded users, and the student moving between the two active colleges.
SubmitPdf ==
    \E u \in DOMAIN users : create_verification_request(u, <<"document", "pdf">>)
Decide ==
    \E u \in DOMAIN users, id \in RequestIds :
        approve_request(u, id) \/ reject_request(u, id, None)

StudentJoins == \E code \in {"ABC123", "XYZ789"} : join_college(1, code)

NextListing == SubmitPdf \/ Decide \/ StudentJoins

SpecListing == Init /\ [][NextListing]_vars

\* GET /events/{id}: the status, the detail and the body of the response;
\* the body is the event's row, None for an id that is not there.
ReadEventResponse(id) ==
    IF id \notin DOMAIN events
    THEN [code |-> 404, detail |-> "Event not found", body |-> None]
    ELSE [code |-> 200, detail |-> "", body |-> events[id]]

\* What the notification step (lines 52-70) does: both the insert and the
\* broadcast succeed, the broadcast raises, or the insert raises.
NotifyOutcomes == {"sent", "broadcast_failed", "persist_failed"}

Frame_events ==
    UNCHANGED <<users, requests, items, nextItemId, configured, inflight,
                participations, nextUserId, nextRequestId>>

\* A creation in one transaction with its notification: a failure of the
\* notification step undoes the event and is answered 500.
create_event_Transactional(u, title, notify) ==
    /\ get_current_active_college_admin(u)
    /\ nextEventId <= MaxEvents
    /\ LET id == nextEventId
           notif == Notification(Len(notifications) + 1, title, u)
       IN  IF notify = "sent"
           THEN /\ events' = events @@ (id :> Event(id, title, u, users[u].college_id))
                /\ nextEventId' = id + 1
                /\ notifications' = Append(notifications, notif)
                /\ outbox' = Append(outbox, notif)
                /\ last' = Response("create_event", 200, "", 0)
           ELSE /\ last' = Response("create_event", 500, "Internal Server Error", 0)
                /\ UNCHANGED <<events, nextEventId, notifications, outbox>>
    /\ UNCHANGED objects
    /\ Frame_events

create_event(u, title, notify) ==
    /\ get_current_active_college_admin(u)
    /\ nextEventId <= MaxEvents
    /\ LET id == nextEventId
           notif == Notification(Len(notifications) + 1, title, u)
       IN  /\ events' = events @@ (id :> Event(id, title, u, users[u].college_id))
           /\ nextEventId' = id + 1
           /\ notifications' = IF notify = "persist_failed" THEN notifications
                               ELSE Append(notifications, notif)
           /\ outbox' = IF notify = "sent" THEN Append(outbox, notif) ELSE outbox
           /\ last' = Response("create_event", 200, "", 0)
    /\ UNCHANGED objects
    /\ Frame_events

\* The fields an EventUpdate sets: a title, or None when the body leaves the
\* title unset.
\* update_event that also moves the event to the college of the caller.
update_event_Rehomed(u, id, title) ==
    /\ get_current_active_user(u)
    /\ IF id \notin DOMAIN events
       THEN /\ last' = Response("update_event", 404, "Event not found", 0)
            /\ UNCHANGED events
       ELSE IF ~users[u].is_superuser /\ events[id].organizer_id # u
       THEN /\ last' = Response("update_event", 400, "Not enough permissions", 0)
            /\ UNCHANGED events
       ELSE /\ events' = [events EXCEPT ![id].college_id = users[u].college_id]
            /\ last' = Response("update_event", 200, "", 0)
    /\ UNCHANGED <<nextEventId, notifications, outbox, objects>>
    /\ Frame_events

update_event(u, id, title) ==
    /\ get_current_active_user(u)
    /\ IF id \notin DOMAIN events
       THEN /\ last' = Response("update_event", 404, "Event not found", 0)
            /\ UNCHANGED events
       ELSE IF ~users[u].is_superuser /\ events[id].organizer_id # u
       THEN /\ last' = Response("update_event", 400, "Not enough permissions", 0)
            /\ UNCHANGED events
       ELSE /\ events' = IF title = None THEN events
                         ELSE [events EXCEPT ![id].title = title]
            /\ last' = Response("update_event", 200, "", 0)
    /\ UNCHANGED <<nextEventId, notifications, outbox, objects>>
    /\ Frame_events

delete_event(u, id) ==
    /\ get_current_active_user(u)
    /\ IF id \notin DOMAIN events
       THEN /\ last' = Response("delete_event", 404, "Event not found", 0)
            /\ UNCHANGED <<events, participations>>
       ELSE IF ~users[u].is_superuser /\ events[id].organizer_id # u
       THEN /\ last' = Response("delete_event", 400, "Not enough permissions", 0)
            /\ UNCHANGED <<events, participations>>
       ELSE /\ events' = [e \in DOMAIN events \ {id} |-> events[e]]
            /\ participations' = {p \in participations : p.event_id # id}
            /\ last' = Response("delete_event", 200, "", 0)
    /\ UNCHANGED <<nextEventId, notifications, outbox, objects>>
    /\ UNCHANGED <<users, nextUserId, requests, nextRequestId, items,
                   nextItemId, configured, inflight>>

\* POST /events/{id}/register hands over to event_service.register_for_event:
\* a participation of the caller in an event that exists.
Participation(user_id, event_id) == [user_id |-> user_id, event_id |-> event_id]

register_participation(u, id) ==
    /\ get_current_active_user(u)
    /\ IF id \notin DOMAIN events
       THEN /\ last' = Response("register_participation", 404, "Event not found", 0)
            /\ UNCHANGED participations
       ELSE /\ participations' = participations \cup {Participation(u, id)}
            /\ last' = Response("register_participation", 200, "", 0)
    /\ UNCHANGED <<events, nextEventId, notifications, outbox, objects>>
    /\ UNCHANGED <<users, nextUserId, requests, nextRequestId, items,
                   nextItemId, configured, inflight>>


\* storage.upload_event_image: events/{event_id}/event_image{ext}, or NoUrl.
upload_event_image_remote(event_id, file_path, up) ==
    IF ~configured THEN NoUrl
    ELSE IF ~up THEN NoUrl
    ELSE Object("remote", "event", event_id, NoId, 0, <<>>, Suffix(file_path))

\* /static/events/event_{id}.{file_extension}
LocalEventPath(event_id, file_extension) ==
    Object("local", "event", event_id, NoId, 0, <<>>, file_extension)

\* Lines 181-196: the remote upload, then the local fallback.
StoreEventImage(id, f, up, wr) ==
    LET remote == upload_event_image_remote(id, f, up)
        remoteCalls == IF configured THEN 1 ELSE 0
    IN  IF remote # NoUrl
        THEN [ok |-> TRUE, url |-> remote, calls |-> remoteCalls]
        ELSE IF wr
        THEN [ok |-> TRUE, url |-> LocalEventPath(id, SplitExt(f)),
              calls |-> remoteCalls + 1]
        ELSE [ok |-> FALSE, url |-> NoUrl, calls |-> remoteCalls + 1]

upload_event_image(u, id, f) ==
    /\ get_current_active_user(u)
    /\ IF id \notin DOMAIN events
       THEN /\ last' = Response("upload_event_image", 404, "Event not found", 0)
            /\ UNCHANGED <<events, objects>>
       ELSE IF ~users[u].is_superuser /\ events[id].organizer_id # u
       THEN /\ last' = Response("upload_event_image", 403, "Not enough permissions", 0)
            /\ UNCHANGED <<events, objects>>
       ELSE IF SplitExt(f) \notin ImageExts
       THEN /\ last' = Response("upload_event_image", 400,
                                "Invalid file type. Only JPG/PNG/WEBP allowed.", 0)
            /\ UNCHANGED <<events, objects>>
       ELSE \E io \in StorageOutcomes :
               LET s == StoreEventImage(id, f, io[1], io[2])
               IN  IF ~s.ok
                   THEN /\ last' = Response("upload_event_image", 500,
                                            "Internal Server Error", s.calls)
                        /\ UNCHANGED <<events, objects>>
                   ELSE /\ events' = [events EXCEPT ![id].image_url = s.url]
                        /\ objects' = objects \cup {s.url}
                        /\ last' = Response("upload_event_image", 200, "", s.calls)
    /\ UNCHANGED <<nextEventId, notifications, outbox>>
    /\ Frame_events

Titles == {"Fest"}
NewTitles == {None, "Gala"}
ImageFiles == {<<"poster", "PNG">>, <<"poster", "gif">>}
EventIds == 1..(MaxEvents + 1)

CreateEvent ==
    \E u \in DOMAIN users, t \in Titles, n \in NotifyOutcomes : create_event(u, t, n)
UpdateEvent ==
    \E u \in DOMAIN users, id \in EventIds, t \in NewTitles : update_event(u, id, t)
DeleteEvent == \E u \in DOMAIN users, id \in EventIds : delete_event(u, id)
RegisterParticipation ==
    \E u \in DOMAIN users, id \in EventIds : register_participation(u, id)
UploadEventImage ==
    \E u \in DOMAIN users, id \in EventIds, f \in ImageFiles :
        upload_event_image(u, id, f)

\* The handler takes no current user and changes no table.
read_event(id) ==
    /\ last' = Response("read_event", ReadEventResponse(id).code,
                        ReadEventResponse(id).detail, 0)
    /\ UNCHANGED <<events, nextEventId, notifications, outbox, objects>>
    /\ Frame_events

ReadEvent == \E id \in EventIds : read_event(id)

\* An event is created and its notification is delivered.
CreateEventNotified ==
    \E u \in DOMAIN users, t \in Titles : create_event(u, t, "sent")

NextEvents ==
    JoinCollege \/ CreateEvent \/ UpdateEvent \/ DeleteEvent \/ UploadEventImage

SpecEvents == Init /\ [][NextEvents]_vars

\* Joining a college and the operations on events other than the image
\* upload, which writes image_url and the stored objects only.
NextTenancy == JoinCollege \/ CreateEventNotified \/ UpdateEvent \/ DeleteEvent

SpecTenancy == Init /\ [][NextTenancy]_vars

\* Creating events with every outcome of the notification step, with the
\* update and the deletion of events.
NextNotify == CreateEvent \/ UpdateEvent \/ DeleteEvent

SpecNotify == Init /\ [][NextNotify]_vars

\* create_event in the steps its awaits separate: the commit of the event
\* (lines 42-49), the commit of the Notification (53-60) and the broadcast
\* with the return (62-72).  A session holds the handler's locals.
Creating(pc, u, id, title) ==
    [pc |-> pc, actor |-> u, event |-> id, title |-> title]

Frame_emit ==
    UNCHANGED <<users, requests, items, nextItemId, objects, configured,
                participations, nextUserId, nextRequestId>>

\* A step that leaves the handler as it was asked to start, without the
\* event.
CommitEvent_Skipped(s, u, title) ==
    /\ inflight[s].pc = "idle"
    /\ get_current_active_college_admin(u)
    /\ nextEventId <= MaxEvents
    /\ inflight' = [inflight EXCEPT ![s] =
                        Creating("committed", u, nextEventId, title)]
    /\ UNCHANGED <<events, nextEventId, notifications, outbox, last>>
    /\ Frame_emit

CommitEvent(s, u, title) ==
    /\ inflight[s].pc = "idle"
    /\ get_current_active_college_admin(u)
    /\ nextEventId <= MaxEvents
    /\ events' = events @@
          (nextEventId :> Event(nextEventId, title, u, users[u].college_id))
    /\ nextEventId' = nextEventId + 1
    /\ inflight' = [inflight EXCEPT ![s] =
                        Creating("committed", u, nextEventId, title)]
    /\ UNCHANGED <<notifications, outbox, last>>
    /\ Frame_emit

\* ok is FALSE when the insert raises: the except clause (69-70) prints and
\* the handler returns the event.
PersistNotification(s, ok) ==
    /\ inflight[s].pc = "committed"
    /\ IF ok
       THEN /\ notifications' = Append(notifications,
                   Notification(Len(notifications) + 1, inflight[s].title,
                                inflight[s].actor))
            /\ inflight' = [inflight EXCEPT ![s] =
                   [pc |-> "persisted", actor |-> inflight[s].actor,
                    event |-> inflight[s].event, title |-> inflight[s].title,
                    notif |-> Len(notifications) + 1]]
            /\ UNCHANGED last
       ELSE /\ inflight' = [inflight EXCEPT ![s] = Idle]
            /\ last' = Response("create_event", 200, "", 0)
            /\ UNCHANGED notifications
    /\ UNCHANGED <<events, nextEventId, outbox>>
    /\ Frame_emit

\* ok is FALSE when manager.broadcast raises.
Broadcast(s, ok) ==
    /\ inflight[s].pc = "persisted"
    /\ outbox' = IF ok THEN Append(outbox, notifications[inflight[s].notif])
                 ELSE outbox
    /\ inflight' = [inflight EXCEPT ![s] = Idle]
    /\ last' = Response("create_event", 200, "", 0)
    /\ UNCHANGED <<events, nextEventId, notifications>>
    /\ Frame_emit

CommitEventStep ==
    \E s \in Sessions, u \in DOMAIN users, t \in Titles : CommitEvent(s, u, t)
PersistNotificationStep ==
    \E s \in Sessions, ok \in BOOLEAN : PersistNotification(s, ok)
BroadcastStep == \E s \in Sessions, ok \in BOOLEAN : Broadcast(s, ok)

\* The steps of concurrent creations, while users join colleges.
NextEmit ==
    CommitEventStep \/ PersistNotificationStep \/ BroadcastStep \/ JoinCollege

SpecEmit == Init /\ [][NextEmit]_vars

\* Fetching, updating and deleting events by id, by the members of two
\* colleges and the super admin.
NextFetch ==
    JoinCollege \/ CreateEventNotified \/ ReadEvent \/ UpdateEvent \/ DeleteEvent

SpecFetch == Init /\ [][NextFetch]_vars

\* Every operation that writes an event or the profile of its organizer:
\* the organizer of an event joins a college or sets college_id in their
\* profile, and the event is updated and given an image.
OrganizerJoinsCollege ==
    \E id \in DOMAIN events, code \in InviteCodes :
        join_college(events[id].organizer_id, code)
OrganizerUpdatesProfile ==
    \E id \in DOMAIN events, patch \in CollegePatches :
        update_user_me(events[id].organizer_id, patch)
UploadPoster ==
    \E u \in DOMAIN users, id \in EventIds :
        upload_event_image(u, id, <<"poster", "PNG">>)

NextImmutable ==
    \/ OrganizerJoinsCollege
    \/ OrganizerUpdatesProfile
    \/ CreateEventNotified
    \/ UpdateEvent
    \/ UploadPoster

SpecImmutable == Init /\ [][NextImmutable]_vars

-----------------------------------------------------------------------------
(* Marketplace (endpoints/marketplace.py) *)

MarketplaceItem(id, owner_id) ==
    [id |-> id, owner_id |-> owner_id, image_url |-> NoUrl]

\* file: UploadFile | None = File(None)
NoFile == <<>>

\* storage.upload_marketplace_item:
\* marketplace/{user_id}/items/{item_id}/item_image{ext}, or NoUrl.
upload_marketplace_item(user_id, item_id, file_path, up) ==
    IF ~configured THEN NoUrl
    ELSE IF ~up THEN NoUrl
    ELSE Object("remote", "item", user_id, item_id, 0, <<>>, Suffix(file_path))

\* static/marketplace/{current_user.id}_{file.filename}
LocalItemPath(user_id, filename) ==
    Object("local", "item", user_id, NoId, 0, filename, "")

\* Lines 91-106: the remote upload, then the local fallback.
StoreItemImage(u, id, f, up, wr) ==
    LET remote == upload_marketplace_item(u, id, f, up)
        remoteCalls == IF configured THEN 1 ELSE 0
    IN  IF remote # NoUrl
        THEN [ok |-> TRUE, url |-> remote, calls |-> remoteCalls]
        ELSE IF wr
        THEN [ok |-> TRUE, url |-> LocalItemPath(u, f), calls |-> remoteCalls + 1]
        ELSE [ok |-> FALSE, url |-> NoUrl, calls |-> remoteCalls + 1]

Frame_marketplace ==
    UNCHANGED <<users, requests, events, nextEventId, notifications, outbox,
                configured, inflight, participations, nextUserId,
                nextRequestId>>

\* The item is committed (lines 70-80) before the file is looked at.
create_item(u, f) ==
    /\ get_current_active_user(u)
    /\ nextItemId <= MaxItems
    /\ LET id == nextItemId
           row == MarketplaceItem(id, u)
       IN  /\ nextItemId' = id + 1
           /\ IF f = NoFile
              THEN /\ items' = items @@ (id :> row)
                   /\ last' = Response("create_item", 200, "", 0)
                   /\ UNCHANGED objects
              ELSE IF SplitExt(f) \notin ImageExts
              THEN /\ items' = items @@ (id :> row)
                   /\ last' = Response("create_item", 400,
                                       "Invalid file type. Only JPG/PNG/WEBP allowed.", 0)
                   /\ UNCHANGED objects
              ELSE \E io \in StorageOutcomes :
                      LET s == StoreItemImage(u, id, f, io[1], io[2])
                      IN  IF ~s.ok
                          THEN /\ items' = items @@ (id :> row)
                               /\ last' = Response("create_item", 500,
                                                   "Internal Server Error", s.calls)
                               /\ UNCHANGED objects
                          ELSE /\ items' = items @@
                                      (id :> [row EXCEPT !.image_url = s.url])
                               /\ objects' = objects \cup {s.url}
                               /\ last' = Response("create_item", 200, "", s.calls)
    /\ Frame_marketplace

\* A deletion that checks the item's existence only.
delete_item_AnyActor(u, id) ==
    /\ get_current_active_user(u)
    /\ IF id \notin DOMAIN items
       THEN /\ last' = Response("delete_item", 404, "Item not found", 0)
            /\ UNCHANGED items
       ELSE /\ items' = [i \in DOMAIN items \ {id} |-> items[i]]
            /\ last' = Response("delete_item", 200, "Item deleted", 0)
    /\ UNCHANGED <<nextItemId, objects,
                participations>>
    /\ Frame_marketplace

delete_item(u, id) ==
    /\ get_current_active_user(u)
    /\ IF id \notin DOMAIN items
       THEN /\ last' = Response("delete_item", 404, "Item not found", 0)
            /\ UNCHANGED items
       ELSE IF ~users[u].is_superuser /\ items[id].owner_id # u
       THEN /\ last' = Response("delete_item", 403, "Not enough permissions", 0)
            /\ UNCHANGED items
       ELSE /\ items' = [i \in DOMAIN items \ {id} |-> items[i]]
            /\ last' = Response("delete_item", 200, "Item deleted", 0)
    /\ UNCHANGED <<nextItemId, objects,
                participations>>
    /\ Frame_marketplace

ItemIds == 1..(MaxItems + 1)

CreateItem ==
    \E u \in DOMAIN users, f \in ImageFiles \cup {NoFile} : create_item(u, f)
DeleteItem == \E u \in DOMAIN users, id \in ItemIds : delete_item(u, id)

\* The marketplace alone: items are created and deleted by any user.
NextMarket == CreateItem \/ DeleteItem

SpecMarket == Init /\ [][NextMarket]_vars

-----------------------------------------------------------------------------
(* Profile image (endpoints/users.py, utils/storage.py) *)

\* users/{user_id}/profile_picture/profile_picture{ext}
RemoteProfilePath(user_id, file_path) ==
    Object("remote", "profile", user_id, NoId, 0, <<>>, Suffix(file_path))

\* /static/profile_images/user_{id}.{file_extension}
LocalProfilePath(user_id, file_extension) ==
    Object("local", "profile", user_id, NoId, 0, <<>>, file_extension)

\* storage.upload_profile_image, then the local fallback (users.py:149-163).
\* A configured store is asked to remove the object at the path (rm: the
\* removal took effect; its failure is swallowed) and then to upload (up);
\* wr is the outcome of the local write.
StoreProfileImage(u, f, rm, up, wr) ==
    LET path == RemoteProfilePath(u, f)
        kept == IF configured /\ rm THEN objects \ {path} ELSE objects
        remoteCalls == IF configured THEN 2 ELSE 0
    IN  IF configured /\ up
        THEN [ok |-> TRUE, url |-> path, objects |-> kept \cup {path},
              calls |-> remoteCalls]
        ELSE IF wr
        THEN [ok |-> TRUE, url |-> LocalProfilePath(u, SplitExt(f)),
              objects |-> kept \cup {LocalProfilePath(u, SplitExt(f))},
              calls |-> remoteCalls + 1]
        ELSE [ok |-> FALSE, url |-> NoUrl, objects |-> kept,
              calls |-> remoteCalls + 1]

upload_profile_image(u, f) ==
    /\ get_current_active_user(u)
    /\ IF SplitExt(f) \notin ImageExts
       THEN /\ last' = Response("upload_profile_image", 400,
                                "Invalid file type. Only JPG/PNG/WEBP allowed.", 0)
            /\ UNCHANGED <<users, objects>>
       ELSE \E rm \in BOOLEAN, io \in StorageOutcomes :
               LET s == StoreProfileImage(u, f, rm, io[1], io[2])
               IN  /\ objects' = s.objects
                   /\ IF ~s.ok
                      THEN /\ last' = Response("upload_profile_image", 500,
                                               "Internal Server Error", s.calls)
                           /\ UNCHANGED users
                      ELSE /\ users' = [users EXCEPT ![u].profile_image_url = s.url]
                           /\ last' = Response("upload_profile_image", 200, "", s.calls)
    /\ UNCHANGED <<requests, events, nextEventId, items, nextItemId,
                   notifications, outbox, configured, inflight,
                participations, nextUserId, nextRequestId>>

\* Two files of one allowed extension.
PngFiles == {<<"poster", "png">>, <<"flyer", "png">>}

\* The student uploads profile images.
UploadProfilePng == \E f \in PngFiles : upload_profile_image(1, f)
UploadEventPng ==
    \E u \in DOMAIN users, id \in EventIds, f \in PngFiles :
        upload_event_image(u, id, f)
CreateItemPng ==
    /\ (nextEventId - 1) + (nextItemId - 1) < MaxOwned
    /\ \E u \in DOMAIN users, f \in PngFiles : create_item(u, f)
CreateEventForImage ==
    /\ (nextEventId - 1) + (nextItemId - 1) < MaxOwned
    /\ CreateEventNotified

\* The three image uploads, with the creation of the event that gets one,
\* for at most MaxOwned events and items.
NextUploads ==
    CreateEventForImage \/ UploadProfilePng \/ UploadEventPng \/ CreateItemPng

SpecUploads == Init /\ [][NextUploads]_vars

\* Files of two allowed extensions.
ProfileFiles == {<<"poster", "png">>, <<"photo", "jpg">>}

\* The student and the college admin upload profile images.
UploadProfileImage ==
    \E u \in {1, 2}, f \in ProfileFiles : upload_profile_image(u, f)

NextPicture == UploadProfileImage

SpecPicture == Init /\ [][NextPicture]_vars

\* Files whose name has no allowed extension: photo.gif, and a file named
\* "png", which has no extension at all.
OddFiles == {<<"photo", "gif">>, <<"png">>}

UploadProfileOdd == \E f \in OddFiles : upload_profile_image(1, f)
UploadEventOdd ==
    \E u \in DOMAIN users, id \in EventIds, f \in OddFiles :
        upload_event_image(u, id, f)
CreateItemOdd ==
    /\ (nextEventId - 1) + (nextItemId - 1) < MaxOwned
    /\ \E u \in DOMAIN users, f \in OddFiles : create_item(u, f)
SubmitOdd ==
    \E u \in DOMAIN users, f \in OddFiles : create_verification_request(u, f)

\* The four uploads with files outside the allow-lists.
NextOdd ==
    \/ CreateEventForImage \/ UploadProfileOdd \/ UploadEventOdd
    \/ CreateItemOdd \/ SubmitOdd

SpecOdd == Init /\ [][NextOdd]_vars

-----------------------------------------------------------------------------
(* Deleting a user (endpoints/users.py, models/models.py) *)

RowsWithout(t, gone) == [i \in DOMAIN t \ gone |-> t[i]]

\* A deletion of the users row alone.
delete_user_RowOnly(u, id) ==
    /\ get_current_active_user(u)
    /\ IF ~users[u].is_superuser /\ u # id
       THEN /\ last' = Response("delete_user", 403, "Not enough permissions", 0)
            /\ UNCHANGED users
       ELSE IF id \notin DOMAIN users
       THEN /\ last' = Response("delete_user", 404, "User not found", 0)
            /\ UNCHANGED users
       ELSE /\ users' = RowsWithout(users, {id})
            /\ last' = Response("delete_user", 200, "User deleted", 0)
    /\ UNCHANGED <<events, participations, items, requests>>
    /\ UNCHANGED <<nextUserId, nextRequestId, nextEventId, nextItemId,
                   notifications, outbox, objects, configured, inflight>>

\* db.delete(user): the session deletes the events the user organized and
\* the user's participations (cascade="all, delete-orphan", models.py:44-45),
\* and with each event its participations (models.py:65); the foreign keys
\* of marketplace_items and verification_requests are ON DELETE CASCADE
\* (models.py:136, 151).
delete_user(u, id) ==
    /\ get_current_active_user(u)
    /\ IF ~users[u].is_superuser /\ u # id
       THEN /\ last' = Response("delete_user", 403, "Not enough permissions", 0)
            /\ UNCHANGED <<users, events, participations, items, requests>>
       ELSE IF id \notin DOMAIN users
       THEN /\ last' = Response("delete_user", 404, "User not found", 0)
            /\ UNCHANGED <<users, events, participations, items, requests>>
       ELSE LET organized == {e \in DOMAIN events : events[e].organizer_id = id}
                owned == {i \in DOMAIN items : items[i].owner_id = id}
                submitted == {r \in DOMAIN requests : requests[r].user_id = id}
            IN  /\ users' = RowsWithout(users, {id})
                /\ events' = RowsWithout(events, organized)
                /\ participations' =
                      {p \in participations :
                          p.user_id # id /\ p.event_id \notin organized}
                /\ items' = RowsWithout(items, owned)
                /\ requests' = RowsWithout(requests, submitted)
                /\ last' = Response("delete_user", 200, "User deleted", 0)
    /\ UNCHANGED <<nextUserId, nextRequestId, nextEventId, nextItemId,
                   notifications, outbox, objects, configured, inflight>>

UserIds == 1..MaxUsers

DeleteUser == \E u \in DOMAIN users, id \in UserIds : delete_user(u, id)

\* The college admin organizes events, owns items and submits requests, the
\* student and the admin register for events, and events and users are
\* deleted by anyone.
AdminCreatesEvent == \E t \in Titles : create_event(2, t, "sent")
AdminCreatesItem == create_item(2, NoFile)
AdminSubmits == create_verification_request(2, <<"document", "pdf">>)
Registers == \E u \in {1, 2}, id \in EventIds : register_participation(u, id)

NextCascade ==
    \/ AdminCreatesEvent \/ AdminCreatesItem \/ AdminSubmits \/ Registers
    \/ DeleteEvent \/ DeleteUser

SpecCascade == Init /\ [][NextCascade]_vars

\* The events and items created so far.
OwnedRows == (nextEventId - 1) + (nextItemId - 1)

\* The owner-or-admin operations with the operations that create their
\* resources, for at most MaxOwned resources.
CreateOwnedEvent == OwnedRows < MaxOwned /\ CreateEventNotified
CreateOwnedItem == OwnedRows < MaxOwned /\ CreateItem

NextOwner ==
    \/ CreateOwnedEvent \/ CreateOwnedItem
    \/ UpdateEvent \/ DeleteEvent \/ UploadEventImage \/ DeleteItem

SpecOwner == Init /\ [][NextOwner]_vars

-----------------------------------------------------------------------------
(* Claims about the verification workflow *)

Pending(id) == requests[id].status = "pending"
Terminal(id) == requests[id].status \in {"approved", "rejected"}
Conflict == "A pending verification request already exists."

\* C1: after any sequence of atomic submit, approve and reject operations,
\* every user has at most one pending verification request.
AtMostOnePending ==
    \A u \in DOMAIN users : Cardinality(PendingOf(u)) <= 1

\* A user resubmitted after a decision: a decided and a pending request.
ResubmittedAfterDecision ==
    \E a, b \in DOMAIN requests :
        /\ requests[a].user_id = requests[b].user_id
        /\ Terminal(a) /\ Pending(b)
        /\ last.op = "submit" /\ last.code = 200

\* C2: with the lookup, the storage and the insert of concurrent submissions
\* interleaved, no state holds two pending requests of one actor.
NoTwoPendingUnderInterleaving ==
    ~ \E a, b \in DOMAIN requests :
        a # b /\ requests[a].user_id = requests[b].user_id
              /\ Pending(a) /\ Pending(b)

\* C3: a submission by an actor that has a pending request answers Conflict
\* for any document, allowed or not, makes no storage call, creates no
\* request and leaves the existing requests as they are.
SubmitWhilePendingConflicts ==
    [][\A u \in DOMAIN users, f \in Documents :
          (/\ last'.op = "submit"
           /\ PendingOf(u) # {}
           /\ create_verification_request(u, f))
          => /\ last'.code = 400 /\ last'.detail = Conflict
             /\ last'.calls = 0
             /\ requests' = requests
             /\ objects' = objects]_vars

\* A submission was answered Conflict while its actor had a pending request.
ConflictAnswered ==
    /\ last.op = "submit" /\ last.code = 400 /\ last.detail = Conflict
    /\ \E u \in DOMAIN users : PendingOf(u) # {}

Decided(id, status) ==
    /\ last'.code = 200
    /\ DOMAIN requests' = DOMAIN requests
    /\ requests'[id].status = status
    /\ \A other \in DOMAIN requests \ {id} : requests'[other] = requests[other]

NotFound(detail) ==
    last'.code = 404 /\ last'.detail = detail

\* C4: approve and reject answer NotFound and change no request for an id
\* that does not exist, and succeed and set the status for one that does,
\* whatever its prior status.
DecisionAlwaysApplies ==
    [][\A u \in DOMAIN users, id \in RequestIds :
          /\ (last'.op = "approve" /\ approve_request(u, id)) =>
                IF id \in DOMAIN requests THEN Decided(id, "approved")
                ELSE NotFound("Verification request not found")
                     /\ requests' = requests
          /\ \A note \in Notes :
                (last'.op = "reject" /\ reject_request(u, id, note)) =>
                IF id \in DOMAIN requests THEN Decided(id, "rejected")
                ELSE NotFound("Verification request not found")
                     /\ requests' = requests]_vars

\* A rejected request (it carries a note) was approved.
ApprovedAfterRejection ==
    /\ last.op = "approve" /\ last.code = 200
    /\ \E id \in DOMAIN requests :
          requests[id].status = "approved" /\ requests[id].admin_note # None

\* C5: a request that reached approved or rejected keeps its status.
TerminalStatusIsFinal ==
    [][\A id \in DOMAIN requests :
          Terminal(id) => requests'[id].status = requests[id].status]_vars

\* C6: a request with an admin note is a rejected request.
NoteOnlyOnRejected ==
    \A id \in DOMAIN requests :
        requests[id].admin_note # None => requests[id].status = "rejected"

-----------------------------------------------------------------------------
(* Claims about events and marketplace items *)

PermissionDenied == "Not enough permissions"
Rows(listing) == {listing[i] : i \in DOMAIN listing}
NonSuper(u) == get_current_active_user(u) /\ ~users[u].is_superuser
Pages == {<<0, DefaultLimit>>, <<0, 1>>, <<1, 1>>, <<1, DefaultLimit>>}

\* Every page of a non-super actor's listing holds events of the actor's
\* college only, and the default page holds exactly those events.
ListingScoped ==
    \A u \in DOMAIN users :
        NonSuper(u) =>
            /\ \A p \in Pages :
                  \A r \in Rows(read_events(u, p[1], p[2])) :
                      r.college_id = users[u].college_id
            /\ \A e \in DOMAIN events :
                  events[e] \in Rows(read_events(u, 0, DefaultLimit))
                      <=> events[e].college_id = users[u].college_id

\* The event a college admin creates is, right after its creation, on the
\* listing of exactly the non-super actors of the admin's college.
CreatedEventListed ==
    \A u \in DOMAIN users, t \in Titles, n \in NotifyOutcomes :
        (last'.op = "create_event" /\ create_event(u, t, n)) =>
            \A m \in DOMAIN users :
                NonSuper(m) =>
                    ((\E r \in Rows(read_events(m, 0, DefaultLimit))' :
                          r.id = nextEventId)
                        <=> users[m].college_id = users[u].college_id)

\* C7: in every reachable state read_events lists, for an actor that is not
\* a superuser, only events of the actor's current college; an event created
\* by a college admin of college T1 is listed for the members of T1 and for
\* no actor of another college.
EventsListedByCollege == []ListingScoped /\ [][CreatedEventListed]_vars

\* A college admin created an event that is on the admin's own listing and
\* not on the listing of a student of the other college.
ListedForOwnCollegeOnly ==
    /\ last.op = "create_event"
    /\ \E e \in DOMAIN events, m1, m2 \in DOMAIN users :
          /\ NonSuper(m1) /\ NonSuper(m2)
          /\ events[e].organizer_id = m1
          /\ events[e] \in Rows(read_events(m1, 0, DefaultLimit))
          /\ users[m2].college_id # events[e].college_id
          /\ events[e] \notin Rows(read_events(m2, 0, DefaultLimit))

\* The step is update_event, delete_event or upload_event_image of actor u
\* on event id.
MutatesEvent(u, id) ==
    \/ (last'.op = "update_event" /\ \E t \in NewTitles : update_event(u, id, t))
    \/ (last'.op = "delete_event" /\ delete_event(u, id))
    \/ (last'.op = "upload_event_image"
            /\ \E f \in ImageFiles : upload_event_image(u, id, f))

\* C8: update_event, delete_event and upload_event_image by an actor that is
\* not a superuser and whose college differs from the event's college are
\* rejected and leave the event unchanged, also when the actor is the
\* organizer who joined another college after creating the event.
OtherCollegeCannotMutate ==
    [][\A u \in DOMAIN users, id \in DOMAIN events :
          (/\ NonSuper(u)
           /\ users[u].college_id # events[id].college_id
           /\ MutatesEvent(u, id))
          => /\ last'.detail = PermissionDenied
             /\ events' = events]_vars

-----------------------------------------------------------------------------
(* Claims about the reviewers and about the owner-or-admin checks *)

\* The reviewer is not a superuser and the submitter of request id belongs
\* to another college.
OtherCollege(reviewer, id) ==
    /\ id \in DOMAIN requests
    /\ ~users[reviewer].is_superuser
    /\ users[requests[id].user_id].college_id # users[reviewer].college_id

\* C9: a reviewer that is not a super admin never changes the status of a
\* request whose submitter belongs to another college.
ReviewerDecidesOwnCollegeOnly ==
    [][\A u \in DOMAIN users, id \in RequestIds :
          (/\ last'.op \in {"approve", "reject"}
           /\ OtherCollege(u, id)
           /\ approve_request(u, id) \/ \E note \in Notes : reject_request(u, id, note))
          => requests'[id].status = requests[id].status]_vars

\* The permission check of an owner-or-admin operation, and what a step of
\* actor u on event id or on item id has to show for each of its outcomes.
Allowed(u, owner_id) == users[u].is_superuser \/ owner_id = u

EventStepDecided(u, id) ==
    IF id \notin DOMAIN events
    THEN last'.code = 404 /\ last'.detail = "Event not found" /\ events' = events
    ELSE IF Allowed(u, events[id].organizer_id)
    THEN last'.code # 404 /\ last'.detail # PermissionDenied
    ELSE /\ last'.code \in {400, 403} /\ last'.detail = PermissionDenied
         /\ events' = events /\ objects' = objects

ItemStepDecided(u, id) ==
    IF id \notin DOMAIN items
    THEN last'.code = 404 /\ last'.detail = "Item not found" /\ items' = items
    ELSE IF Allowed(u, items[id].owner_id)
    THEN last'.code = 200 /\ id \notin DOMAIN items'
    ELSE /\ last'.code \in {400, 403} /\ last'.detail = PermissionDenied
         /\ items' = items

-----------------------------------------------------------------------------
(* Claims about fetching an event by id *)

\* Actor u is not a superuser, does not own event id and belongs to another
\* college than the event.
OutsiderOf(u, id) ==
    /\ NonSuper(u)
    /\ events[id].organizer_id # u
    /\ users[u].college_id # events[id].college_id

\* read_event answers 200 with the row for every id that exists and 404 for
\* every other id.
FetchByIdLeaks ==
    \A id \in EventIds :
        IF id \in DOMAIN events
        THEN /\ ReadEventResponse(id).code = 200
             /\ ReadEventResponse(id).body = events[id]
        ELSE ReadEventResponse(id).code = 404

\* An update or a deletion by an outsider is answered 403 with "Not enough
\* permissions".
WriteByOutsiderIs403 ==
    \A u \in DOMAIN users, id \in DOMAIN events :
        (/\ last'.op \in {"update_event", "delete_event"}
         /\ OutsiderOf(u, id)
         /\ \/ \E t \in NewTitles : update_event(u, id, t)
            \/ delete_event(u, id))
        => last'.code = 403 /\ last'.detail = PermissionDenied

\* C11: read_event returns the data of every existing event to any
\* requester and NotFound only for an absent id, while update_event and
\* delete_event of that event by an actor of another college who does not
\* own it are rejected with PermissionDenied, HTTP 403.
ReadLeaksWriteIs403 == []FetchByIdLeaks /\ [][WriteByOutsiderIs403]_vars

-----------------------------------------------------------------------------
(* Claims about the notification of a new event *)

Announced(n) ==
    {e \in DOMAIN events :
        n.message = <<events[e].title, events[e].organizer_id>>}

\* C13: with create_event taken step by step, every "New Event!"
\* notification in the table and every broadcast payload announces an event
\* that is committed, there are no more notifications than committed
\* events, and every payload is a notification that was persisted first.
NotifiedAfterCommit ==
    /\ \A i \in DOMAIN notifications : Announced(notifications[i]) # {}
    /\ \A i \in DOMAIN outbox :
          /\ Announced(outbox[i]) # {}
          /\ \E j \in DOMAIN notifications : notifications[j] = outbox[i]
    /\ Len(notifications) <= Cardinality(DOMAIN events)
    /\ Len(outbox) <= Len(notifications)
    /\ \A s \in Sessions :
          inflight[s].pc \in {"committed", "persisted"}
              => inflight[s].event \in DOMAIN events

\* A notification was persisted and broadcast for a committed event.
EventAnnounced ==
    /\ last.op = "create_event"
    /\ outbox # <<>> /\ notifications # <<>> /\ DOMAIN events # {}

\* C14: every successful approve_request or reject_request persists a
\* Notification record for the decision, as create_event does for an event.
DecisionsNotify ==
    [][\A u \in DOMAIN users, id \in RequestIds :
          (/\ last'.op \in {"approve", "reject"}
           /\ last'.code = 200
           /\ \/ approve_request(u, id)
              \/ \E note \in Notes : reject_request(u, id, note))
          => Len(notifications') = Len(notifications) + 1]_vars

-----------------------------------------------------------------------------
(* Claims about the college of an event and of a user *)

ProfileUpdateKeepsCollege ==
    [][\A u \in DOMAIN users, patch \in CollegePatches \cup EmailPatches :
          (last'.op = "update_user_me" /\ update_user_me(u, patch))
          => users'[u].college_id = users[u].college_id]_vars

InvalidInvite == "Invalid invite code"
ActiveOrNone(c) == c = NoId \/ colleges[c].is_active

\* C17: join_college and registration with an invite code answer
\* InvalidInvite for a code of no college and never leave the user in a
\* college whose is_active is false.
InviteBindsActiveOnly ==
    [][/\ \A u \in DOMAIN users, code \in AllInviteCodes :
            (last'.op = "join_college" /\ join_college(u, code))
            => IF CollegeByInvite(code) = {}
               THEN last'.code = 400 /\ last'.detail = InvalidInvite
               ELSE ActiveOrNone(users'[u].college_id)
       /\ \A email \in Emails, su \in BOOLEAN, code \in AllInviteCodes :
            (last'.op = "create_user" /\ create_user(email, su, code))
            => IF ~EmailTaken(email, NoId) /\ CollegeByInvite(code) = {}
               THEN last'.code = 400 /\ last'.detail = InvalidInvite
               ELSE \A v \in DOMAIN users' :
                       ActiveOrNone(users'[v].college_id)]_vars

\* C19: join_college with a code of no college answers InvalidInvite and
\* leaves college_id and college_name of the caller as they were; with the
\* code of a college it sets both to that college, and a caller who is
\* already in that college is left exactly as they were.
JoinResolvesInvite ==
    [][\A u \in DOMAIN users, code \in InviteCodes :
          (last'.op = "join_college" /\ join_college(u, code))
          => IF CollegeByInvite(code) = {}
             THEN /\ last'.code = 400 /\ last'.detail = InvalidInvite
                  /\ users'[u].college_id = users[u].college_id
                  /\ users'[u].college_name = users[u].college_name
             ELSE \E c \in CollegeByInvite(code) :
                    /\ last'.code = 200
                    /\ users'[u].college_id = c
                    /\ users'[u].college_name = colleges[c].name
                    /\ (/\ users[u].college_id = c
                        /\ users[u].college_name = colleges[c].name)
                       => users' = users]_vars

\* A user has joined a college other than the one they were seeded with.
JoinedAnotherCollege ==
    /\ last.op = "join_college" /\ last.code = 200
    /\ \E u \in DOMAIN users, c \in DOMAIN colleges :
          /\ users[u].college_id = c
          /\ users[u].college_name = colleges[c].name
          /\ SeedUsers[u].college_id # c

-----------------------------------------------------------------------------
(* Claims about the email of a user *)

NoSharedEmail ==
    \A u, v \in DOMAIN users : users[u].email = users[v].email => u = v

DuplicateRegistrationConflicts ==
    last'.op = "create_user" =>
        \A email \in {e \in Emails : EmailTaken(e, NoId)} :
            (\E su \in BOOLEAN, code \in {None} \cup AllInviteCodes :
                create_user(email, su, code))
            => /\ last'.code = 400 /\ last'.detail = UserExists
               /\ users' = users

\* C18: registration with an email a user already has answers Conflict and
\* creates no user, and no two users ever share an email, whether
\* registrations interleave or profile updates set the email.
EmailsStayUnique ==
    []NoSharedEmail /\ [][DuplicateRegistrationConflicts]_vars

\* A registration lost the race for its email: its lookup found the email
\* free and its commit was refused, after another one stored the email.
RacingRegistrationRefused ==
    /\ last.op = "create_user" /\ last.code = 500
    /\ \E u \in DOMAIN users \ DOMAIN SeedUsers : users[u].email = "kim@one.edu"

-----------------------------------------------------------------------------
(* Claims about the local fallback of the image uploads *)

SameExtension(f) == {g \in PngFiles : SplitExt(g) = SplitExt(f)}
IsLocal(url) == url.store = "local"
IsRemote(url) == url.store = "remote"

\* The step answers 200 with a local URL, and it is the step of every
\* upload with the same keys and a file of the same extension.
ProfileFallback(u, f) ==
    (upload_profile_image(u, f)
     /\ ~(last'.code = 200 /\ IsRemote(users'[u].profile_image_url)))
    => /\ last'.code = 200 /\ IsLocal(users'[u].profile_image_url)
       /\ \A g \in SameExtension(f) : upload_profile_image(u, g)

EventFallback(u, id, f) ==
    (upload_event_image(u, id, f)
     /\ ~(last'.code = 200 /\ IsRemote(events'[id].image_url)))
    => /\ last'.code = 200 /\ IsLocal(events'[id].image_url)
       /\ \A g \in SameExtension(f) : upload_event_image(u, id, g)

ItemFallback(u, f) ==
    (create_item(u, f)
     /\ ~(last'.code = 200 /\ IsRemote(items'[nextItemId].image_url)))
    => /\ last'.code = 200 /\ IsLocal(items'[nextItemId].image_url)
       /\ \A g \in SameExtension(f) : create_item(u, g)

\* C20: when the remote store is not configured or its upload fails, the
\* upload of a profile image, an event image or a marketplace image with an
\* allowed extension answers without an error and writes a local URL that
\* depends on the keys of the resource and the extension only.
FallbackUrlFromKeysAndExtension ==
    [][/\ last'.op = "upload_profile_image" =>
            \A f \in PngFiles : ProfileFallback(1, f)
       /\ last'.op = "upload_event_image" =>
            \A u \in DOMAIN users, id \in DOMAIN events, f \in PngFiles :
                (~users[u].is_superuser /\ events[id].organizer_id # u)
                \/ EventFallback(u, id, f)
       /\ last'.op = "create_item" =>
            \A u \in DOMAIN users, f \in PngFiles : ItemFallback(u, f)]_vars

-----------------------------------------------------------------------------
(* Claims about the stored verification documents *)

\* C21: every successful submission stores its document under a name of
\* its own, so no two verification requests have the same id_card_url.
DocumentsNeverOverwritten ==
    \A i, j \in DOMAIN requests :
        i # j => requests[i].id_card_url # requests[j].id_card_url

-----------------------------------------------------------------------------
(* Claims about the extension allow-lists *)

\* The extension of a filename: what follows its last dot, in lower case.
Extension(f) == Suffix(f)
InvalidFileType(detail) ==
    detail \in {"Invalid file type. Only JPG/PNG/WEBP allowed.",
                "Invalid file type. Only JPG/PNG/PDF allowed."}
RejectedUnstored ==
    /\ last'.code = 400 /\ InvalidFileType(last'.detail)
    /\ last'.calls = 0
    /\ objects' = objects

\* C22: an upload of a file whose extension is outside the allow-list of
\* its kind, and which no earlier check of the handler refuses, is answered
\* InvalidFileType with no storage call, and the URL of the owning row is
\* left as it was.
BadExtensionRejectedBeforeStorage ==
    [][/\ last'.op = "upload_profile_image" =>
            \A f \in {g \in OddFiles : Extension(g) \notin ImageExts} :
                upload_profile_image(1, f)
                => RejectedUnstored /\ users' = users
       /\ last'.op = "upload_event_image" =>
            \A u \in DOMAIN users, id \in DOMAIN events,
               f \in {g \in OddFiles : Extension(g) \notin ImageExts} :
                (/\ users[u].is_superuser \/ events[id].organizer_id = u
                 /\ upload_event_image(u, id, f))
                => RejectedUnstored /\ events' = events
       /\ last'.op = "create_item" =>
            \A u \in DOMAIN users,
               f \in {g \in OddFiles : Extension(g) \notin ImageExts} :
                create_item(u, f)
                => RejectedUnstored /\ items'[nextItemId].image_url = NoUrl
       /\ last'.op = "submit" =>
            \A u \in DOMAIN users,
               f \in {g \in OddFiles : Extension(g) \notin VerificationExts} :
                (PendingCheck(u) = "" /\ create_verification_request(u, f))
                => RejectedUnstored /\ requests' = requests]_vars

EveryRequestHasDocument ==
    \A id \in DOMAIN requests : requests[id].id_card_url # NoUrl

FailedStoreCreatesNothing ==
    (last'.op = "submit" /\ last'.code = 500 /\ last'.calls > 0)
    => requests' = requests

\* C23: every verification request has a document URL, and a submission
\* whose document can be stored neither remotely nor locally ends with an
\* error and creates no request.
RequestsCarryDocument ==
    []EveryRequestHasDocument /\ [][FailedStoreCreatesNothing]_vars

\* A submission failed in the store and in the local fallback while an
\* earlier request of another user is on file.
SubmissionAbortedOnStorage ==
    /\ last.op = "submit" /\ last.code = 500
    /\ last.calls = IF configured THEN 2 ELSE 1
    /\ requests # <<>>

-----------------------------------------------------------------------------
(* Claims about the listing of verification requests *)

Expected(u, status) ==
    {requests[id] : id \in
        {i \in DOMAIN requests :
            /\ requests[i].status = status
            /\ \/ users[u].role = "super_admin"
               \/ users[requests[i].user_id].college_id = users[u].college_id}}

\* C24: the listing of a reviewer holds exactly the requests of the status
\* asked for (pending by default), of users now in the reviewer's college
\* unless the reviewer is a super admin, who gets those of every college.
ListingByStatusAndCollege ==
    \A u \in DOMAIN users :
        get_current_active_college_admin(u) =>
            /\ \A st \in Statuses :
                  Rows(read_verification_requests(u, st)) = Expected(u, st)
            /\ Rows(read_verification_requests(u, DefaultStatus))
                  = Expected(u, "pending")

\* The college admin of college 2 lists the pending request of the student,
\* who has joined college 2 since, and not the pending request of a user of
\* another college, which the super admin does list.
ListedAfterJoining ==
    \E i, j \in DOMAIN requests :
        /\ requests[i].user_id = 1
        /\ requests[i] \in Rows(read_verification_requests(2, "pending"))
        /\ requests[j].status = "pending"
        /\ requests[j] \notin Rows(read_verification_requests(2, "pending"))
        /\ requests[j] \in Rows(read_verification_requests(3, "pending"))

-----------------------------------------------------------------------------
(* Claims about deletions *)

NoDanglingReference ==
    /\ \A e \in DOMAIN events : events[e].organizer_id \in DOMAIN users
    /\ \A p \in participations :
          p.user_id \in DOMAIN users /\ p.event_id \in DOMAIN events
    /\ \A i \in DOMAIN items : items[i].owner_id \in DOMAIN users
    /\ \A r \in DOMAIN requests : requests[r].user_id \in DOMAIN users

DeletionTakesDependents ==
    /\ \A u \in DOMAIN users, id \in DOMAIN events :
          (last'.op = "delete_event" /\ last'.code = 200 /\ delete_event(u, id))
          => \A p \in participations' : p.event_id # id
    /\ \A u \in DOMAIN users, id \in DOMAIN users :
          (last'.op = "delete_user" /\ last'.code = 200 /\ delete_user(u, id))
          => /\ \A e \in DOMAIN events' : events'[e].organizer_id # id
             /\ \A p \in participations' : p.user_id # id
             /\ \A i \in DOMAIN items' : items'[i].owner_id # id
             /\ \A r \in DOMAIN requests' : requests'[r].user_id # id

\* C25: delete_event leaves no participation in the event, delete_user
\* leaves no event, participation, marketplace item or verification request
\* of the user, and no row ever refers to a user or an event that is gone.
DeletionCascades ==
    []NoDanglingReference /\ [][DeletionTakesDependents]_vars

\* A user who had organized an event, owned an item and submitted a request
\* was deleted, and someone else's participation in the event went with it.
UserDeletedWithDependents ==
    /\ last.op = "delete_user" /\ last.code = 200
    /\ 2 \notin DOMAIN users
    /\ nextEventId > 1 /\ nextItemId > 1 /\ nextRequestId > 1
    /\ events = <<>> /\ items = <<>> /\ requests = <<>>
    /\ participations = {}

-----------------------------------------------------------------------------
(* Claims about privileges *)

FlagMatchesRole ==
    \A u \in DOMAIN users :
        users[u].is_superuser <=> users[u].role = "super_admin"

\* Nobody passes the superuser checks after a step who did not before it:
\* the steps are registrations, joins and updates of one's own profile.
NobodyBecomesSuperuser ==
    \A u \in DOMAIN users' :
        users'[u].is_superuser => (u \in DOMAIN users /\ users[u].is_superuser)

\* C26: is_superuser is true exactly for the users of role super_admin, and
\* no registration, profile update or join makes its caller a superuser.
NoPrivilegeEscalation ==
    []FlagMatchesRole /\ [][NobodyBecomesSuperuser]_vars

-----------------------------------------------------------------------------
(* Claims about marketplace items *)

\* C27: a create_item answered InvalidFileType has persisted no item: the
\* items after the call are the items before it.
CreateItemFailsAtomically ==
    [][\A u \in DOMAIN users, f \in ImageFiles :
          (/\ last'.op = "create_item"
           /\ last'.code = 400 /\ InvalidFileType(last'.detail)
           /\ create_item(u, f))
          => items' = items]_vars

\* C28: two different items that have an image have different image_url
\* values, with the remote store and with the local fallback.
ItemImagesDistinct ==
    \A i, j \in DOMAIN items :
        (i # j /\ items[i].image_url # NoUrl /\ items[j].image_url # NoUrl)
        => items[i].image_url # items[j].image_url

-----------------------------------------------------------------------------
(* Claims about the profile picture *)

\* The profile-picture objects the remote store holds for a user.
RemoteProfileObjects(u) ==
    {o \in objects : o.store = "remote" /\ o.kind = "profile" /\ o.a = u}

\* C29: after any sequence of profile uploads, with any allowed extensions,
\* the remote store holds at most one profile-picture object for a user, and
\* that object is the one the user's profile_image_url references.
OneProfilePicture ==
    \A u \in DOMAIN users :
        /\ Cardinality(RemoteProfileObjects(u)) <= 1
        /\ RemoteProfileObjects(u) \subseteq {users[u].profile_image_url}

====
